---- MODULE Spec2Model ----
(***************************************************************************)
(* A model of the bar chart visual of src/src/visual.ts: the Visual class  *)
(* (constructor, update, getViewModel, enumerateObjectInstances), the      *)
(* click handler that update binds to every bar, and the callback that     *)
(* runs when the selection manager's select() promise resolves.            *)
(*                                                                         *)
(* JavaScript values.  A slot that may hold `undefined` is a record:       *)
(* Undefined, or Def(v) for the value v.  `!x` on such a slot is           *)
(* ~x.defined.  A category label is a string; the label read past the end  *)
(* of the category array is the string UndefinedCategory (d3's ordinal     *)
(* scale and the tooltip coerce it to that text anyway).                   *)
(***************************************************************************)
EXTENDS Integers, Sequences, FiniteSets

VARIABLES
    settings,       \* this.settings: Undefined until the first update
    viewModel,      \* this.viewModel: Undefined until an update returns from getViewModel
    svg,            \* the scene outside the bars: svg size, axes, tick-label visibility
    bars,           \* the rect.bar nodes of barGroup, in document order
    selectedIds,    \* the selection manager's list of selected identities
    pending,        \* select() promises not yet resolved, oldest first
    call            \* a getViewModel call taken on its own (ViewModelSpec); Undefined in Spec

visual == <<settings, viewModel, svg, bars, selectedIds, pending>>

vars == <<visual, call>>

(***************************************************************************)
(* Bounds of the model.                                                    *)
(***************************************************************************)
MaxRows == 2        \* rows a category or value column carries
MaxPending == 1     \* select() promises in flight at once

Undefined == [defined |-> FALSE]
Def(v) == [defined |-> TRUE, v |-> v]

UndefinedCategory == "undefined"
Categories == {"A", "B"}
Numbers == {1, 3}
FillOverride == "#FF0000"

Range(s) == {s[i] : i \in 1..Len(s)}

SeqsUpTo(S, n) == UNION {[1..k -> S] : k \in 0..n}

(***************************************************************************)
(* Inputs: the options object the host passes to update.                   *)
(***************************************************************************)

\* A category column groups the rows, so its labels are pairwise distinct.
CategoryValues ==
    {s \in SeqsUpTo(Categories, MaxRows) :
        \A i, j \in 1..Len(s) : s[i] = s[j] => i = j}

\* categories.objects: absent, or one entry per row, which carries a
\* dataColor.fill or does not. Here only the first row is ever formatted.
CategoryObjects(n) ==
    {Undefined} \cup
    (IF n = 0 THEN {}
     ELSE {Def([i \in 1..n |-> IF i = 1 THEN Def(FillOverride) ELSE Undefined])})

CategoryColumns ==
    UNION {{[source |-> Def([displayName |-> "Category"]), values |-> cv, objects |-> ob] :
                ob \in CategoryObjects(Len(cv))} :
           cv \in CategoryValues}
    \cup {[source |-> Undefined, values |-> <<"A">>, objects |-> Undefined]}

\* values.highlights: absent, or one entry per value row.  An entry is null
\* (Undefined) or a number: every row null, the first row highlighted (its
\* value) and the others null or 0, or the first row 0 and the others
\* highlighted.
Highlights(vals) ==
    {Undefined,
     Def([i \in 1..Len(vals) |-> Undefined])} \cup
    (IF Len(vals) = 0 THEN {}
     ELSE {Def([i \in 1..Len(vals) |-> IF i = 1 THEN Def(vals[i]) ELSE Undefined]),
           Def([i \in 1..Len(vals) |-> IF i = 1 THEN Def(vals[i]) ELSE Def(0)]),
           Def([i \in 1..Len(vals) |-> IF i = 1 THEN Def(0) ELSE Def(vals[i])])})

ValueColumns ==
    UNION {{[source |-> [displayName |-> "Value"], values |-> vals, highlights |-> h] :
                h \in Highlights(vals)} :
           vals \in SeqsUpTo(Numbers, MaxRows)}

Categoricals ==
    {[categories |-> Def(<<c>>), values |-> Def(<<v>>)] :
        c \in CategoryColumns, v \in ValueColumns} \cup
    {[categories |-> Undefined, values |-> Def(<<v>>)] :
        v \in {[source |-> [displayName |-> "Value"], values |-> <<1>>,
                highlights |-> Undefined]}} \cup
    {[categories |-> Def(<<>>), values |-> Def(<<v>>)] :
        v \in {[source |-> [displayName |-> "Value"], values |-> <<1>>,
                highlights |-> Undefined]}} \cup
    {[categories |-> Def(<<c>>), values |-> vs] :
        c \in {[source |-> Def([displayName |-> "Category"]), values |-> <<"A">>,
                objects |-> Undefined]},
        vs \in {Undefined, Def(<<>>)}}

\* dataView.metadata.objects: absent, or xAxis.show switched off.
MetadataObjects == {Undefined, Def([xAxis |-> [show |-> FALSE]])}

DataViews ==
    {[metadata |-> [objects |-> mo], categorical |-> c] :
        mo \in MetadataObjects,
        c \in {Undefined} \cup {Def(x) : x \in Categoricals}}

Viewports == {[width |-> 230, height |-> 170], [width |-> 300, height |-> 200]}

SmallViewport == [width |-> 230, height |-> 170]

Options ==
    {[dataViews |-> dvs, viewport |-> vp] :
        dvs \in {Undefined, Def(<<>>)} \cup {Def(<<dv>>) : dv \in DataViews},
        vp \in Viewports}

\* The input has a first data view with a category column that has a source
\* and with a value column: every test of getViewModel's guard passes and
\* values[0] exists.
HasUsableData(options) ==
    /\ options.dataViews.defined
    /\ Len(options.dataViews.v) > 0
    /\ options.dataViews.v[1].categorical.defined
    /\ options.dataViews.v[1].categorical.v.categories.defined
    /\ Len(options.dataViews.v[1].categorical.v.categories.v) > 0
    /\ options.dataViews.v[1].categorical.v.categories.v[1].source.defined
    /\ options.dataViews.v[1].categorical.v.values.defined
    /\ Len(options.dataViews.v[1].categorical.v.values.v) > 0

\* The inputs the state machine feeds to update: every shape of Options; a
\* full data view carries the value rows 3, 1, 3, ..., its columns differ by
\* at most one row, and it varies one thing at a time: a missing or extra
\* row, highlights, per-row formatting, the xAxis setting or the viewport.
UpdateOptions ==
    {o \in Options :
        IF ~HasUsableData(o) THEN o.viewport = SmallViewport ELSE
            LET dv == o.dataViews.v[1]
                c == dv.categorical.v.categories.v[1]
                v == dv.categorical.v.values.v[1]
                plain == /\ ~dv.metadata.objects.defined
                         /\ ~c.objects.defined
                         /\ ~v.highlights.defined
            IN /\ \A i \in 1..Len(v.values) : v.values[i] = IF i % 2 = 1 THEN 3 ELSE 1
               /\ Len(v.values) - Len(c.values) \in {-1, 0, 1}
               /\ Len(v.values) # Len(c.values) => plain
               /\ o.viewport # SmallViewport => (plain /\ Len(v.values) = Len(c.values))
               /\ Cardinality({x \in {"m", "o", "h"} :
                        \/ x = "m" /\ dv.metadata.objects.defined
                        \/ x = "o" /\ c.objects.defined
                        \/ x = "h" /\ v.highlights.defined}) <= 1}

(***************************************************************************)
(* Outcomes of a call: it returns a value or it throws (a TypeError on a   *)
(* property read of undefined).                                            *)
(***************************************************************************)
Returned(v) == [threw |-> FALSE, value |-> v]
Threw == [threw |-> TRUE]

(***************************************************************************)
(* VisualSettings.parse (./settings, not among the sources): xAxis.show    *)
(* defaults to true and is read from dataView.metadata.objects if present. *)
(***************************************************************************)
DefaultSettings == [xAxis |-> [show |-> TRUE]]

parseSettings(dataView) ==
    IF ~dataView.defined \/ ~dataView.v.metadata.objects.defined
    THEN DefaultSettings
    ELSE [xAxis |-> [show |-> dataView.v.metadata.objects.v.xAxis.show]]

\* options && options.dataViews && options.dataViews[0]
FirstDataView(options) ==
    IF options.dataViews.defined /\ Len(options.dataViews.v) > 0
    THEN Def(options.dataViews.v[1])
    ELSE Undefined

(***************************************************************************)
(* Host services getViewModel calls.                                       *)
(***************************************************************************)
\* host.colorPalette.getColor(key).value: one fixed color per key.
getColor(category) ==
    CASE category = "A" -> "#01B8AA"
      [] category = "B" -> "#374649"
      [] OTHER -> "#FD625E"

\* createSelectionIdBuilder().withCategory(categories, i).createSelectionId():
\* a new object on every call. `key` is what equals() compares (the identity
\* of category row i); `instance` is what === compares: the row of the
\* current view model the object was created for, or StaleInstance once a
\* later getViewModel has replaced the view model's identities.
StaleInstance == 0

createSelectionId(category, i) == [key |-> category, instance |-> i]

\* (<number>v).toString()
toString(n) ==
    CASE n = 1 -> "1"
      [] n = 2 -> "2"
      [] n = 3 -> "3"
      [] OTHER -> "0"

\* array[i] with i counted from 1: undefined past the end.
At(array, i) == IF i <= Len(array) THEN Def(array[i]) ELSE Undefined

Max(a, b) == IF a >= b THEN a ELSE b

(***************************************************************************)
(* d3.max(array, d => d.value): undefined for an empty array.              *)
(***************************************************************************)
RECURSIVE d3_max_from(_, _, _)
d3_max_from(dataPoints, i, a) ==
    IF i > Len(dataPoints) THEN a
    ELSE IF ~a.defined \/ dataPoints[i].value > a.v
         THEN d3_max_from(dataPoints, i + 1, Def(dataPoints[i].value))
         ELSE d3_max_from(dataPoints, i + 1, a)

d3_max(dataPoints) == d3_max_from(dataPoints, 1, Undefined)

(***************************************************************************)
(* getViewModel, lines 275..336.                                           *)
(***************************************************************************)
EmptyViewModel == [dataPoints |-> <<>>, maxValue |-> Def(0), highlights |-> FALSE]

\* objects && objects[i] && getFillColor(objects[i], dataColor.fill, null)
\*   || colorPalette.getColor(categories.values[i]).value
resolveColor(objects, i, category) ==
    IF objects.defined /\ At(objects.v, i).defined /\ objects.v[i].defined
    THEN objects.v[i].v
    ELSE getColor(category)

\* JavaScript truthiness of a highlight entry: undefined, null and 0 are
\* falsy, any other number is truthy.
Truthy(entry) == entry.defined /\ entry.v # 0

\* highlights ? highlights[i] ? true : false : false
isHighlighted(highlights, i) ==
    highlights.defined /\ At(highlights.v, i).defined /\ Truthy(highlights.v[i])

\* The object pushed for row i; values.values[i] is known to be a number.
makeDataPoint(categories, values, i) ==
    LET category == IF At(categories.values, i).defined
                    THEN categories.values[i] ELSE UndefinedCategory
    IN [category |-> category,
        value |-> values.values[i],
        color |-> resolveColor(categories.objects, i, category),
        selectionId |-> createSelectionId(category, i),
        highlighted |-> isHighlighted(values.highlights, i),
        tooltips |-> <<[displayName |-> <<categories.source.v.displayName, ":">>,
                        value |-> category],
                       [displayName |-> <<values.source.displayName, ":">>,
                        value |-> toString(values.values[i])]>>]

\* The for loop of lines 299..328: row i is pushed, unless values.values[i]
\* is undefined, where (<number>values.values[i]).toString() throws.
RECURSIVE pushRows(_, _, _, _, _)
pushRows(categories, values, i, len, dataPoints) ==
    IF i > len THEN Returned(dataPoints)
    ELSE IF ~At(values.values, i).defined THEN Threw
    ELSE pushRows(categories, values, i + 1, len,
                  Append(dataPoints, makeDataPoint(categories, values, i)))

getViewModel(options) ==
    LET dv == options.dataViews IN
    IF \/ ~dv.defined
       \/ ~At(dv.v, 1).defined
       \/ ~dv.v[1].categorical.defined
       \/ ~dv.v[1].categorical.v.categories.defined
    THEN Returned(EmptyViewModel)
    ELSE LET view == dv.v[1].categorical.v IN
    IF ~At(view.categories.v, 1).defined
    THEN Threw                      \* categories[0].source of undefined
    ELSE IF \/ ~view.categories.v[1].source.defined
            \/ ~view.values.defined
    THEN Returned(EmptyViewModel)
    ELSE IF ~At(view.values.v, 1).defined
    THEN Threw                      \* values.highlights of undefined
    ELSE LET categories == view.categories.v[1]
             values == view.values.v[1]
             rows == pushRows(categories, values, 1,
                              Max(Len(categories.values), Len(values.values)), <<>>)
         IN IF rows.threw THEN Threw
            ELSE Returned([dataPoints |-> rows.value,
                           maxValue |-> d3_max(rows.value),
                           highlights |->
                               Len(SelectSeq(rows.value, LAMBDA d : d.highlighted)) > 0])

(***************************************************************************)
(* The render half of update, lines 118..225.  Pixel values the linear     *)
(* scale produces are exact fractions num/den (den is the domain's upper   *)
(* end, not reduced), or NaN when the domain's upper end is undefined.     *)
(***************************************************************************)
margin == [left |-> 30, right |-> 20, top |-> 40, bottom |-> 30]

HiddenAxisPadding == 10

Opaque == 10     \* fill-opacity 1.0, in tenths
Dimmed == 5      \* fill-opacity 0.5, in tenths

NaN == [nan |-> TRUE]
Frac(n, d) == [num |-> n, den |-> d]

xAxisPadding(s) == IF s.xAxis.show THEN margin.bottom ELSE HiddenAxisPadding

xAxisTextVisible(s) == IF s.xAxis.show THEN "visible" ELSE "hidden"

\* d3.scale.linear().domain([0, maxValue]).range([r0, r1]) applied to value
yScale(maxValue, r0, r1, value) ==
    IF ~maxValue.defined THEN NaN
    ELSE IF maxValue.v = 0 THEN Frac(r0, 1)
    ELSE Frac(r0 * maxValue.v + value * (r1 - r0), maxValue.v)

\* height - yScale(d.value) - xAxisPadding
barHeight(height, y, padding) ==
    IF y = NaN THEN NaN
    ELSE Frac((height - padding) * y.den - y.num, y.den)

\* d3.scale.ordinal().domain(labels): the labels, each kept once, in order
RECURSIVE ordinalDomain(_, _)
ordinalDomain(labels, domain) ==
    IF labels = <<>> THEN domain
    ELSE ordinalDomain(Tail(labels),
                       IF Head(labels) \in Range(domain) THEN domain
                       ELSE Append(domain, Head(labels)))

\* rangeRoundBands([start, stop], 0.5): step = floor((stop-start)/(n+0.5)),
\* first band at start + round((stop-start-(n-0.5)*step)/2),
\* rangeBand = round(step/2); round is Math.round.
bandStep(n, start, stop) == (2 * (stop - start)) \div (2 * n + 1)

bandFirst(n, start, stop) ==
    start + ((2 * (stop - start) - (2 * n - 1) * bandStep(n, start, stop) + 2) \div 4)

rangeBand(n, start, stop) == (bandStep(n, start, stop) + 1) \div 2

IndexOf(seq, x) == CHOOSE i \in 1..Len(seq) : seq[i] = x

xScale(domain, start, stop, label) ==
    bandFirst(Len(domain), start, stop)
        + bandStep(Len(domain), start, stop) * (IndexOf(domain, label) - 1)

\* Everything update draws outside the bars.
renderAxes(vm, s, viewport) ==
    [width |-> viewport.width,
     height |-> viewport.height,
     yAxis |-> [domain |-> <<Def(0), vm.maxValue>>,
                range |-> <<viewport.height - xAxisPadding(s), margin.top>>,
                translate |-> <<margin.left, 0>>],
     xAxis |-> [domain |-> ordinalDomain([i \in 1..Len(vm.dataPoints) |->
                                              vm.dataPoints[i].category], <<>>),
                translate |-> <<0, viewport.height - xAxisPadding(s)>>,
                textVisibility |-> xAxisTextVisible(s)]]

\* barGroup.selectAll(".bar").data(dataPoints): the join is by index.
\* update: the existing nodes that get a datum; enter: the data without a
\* node; exit: the existing nodes without a datum.
Min(a, b) == IF a <= b THEN a ELSE b

dataJoin(nodes, data) ==
    [update |-> [i \in 1..Min(Len(nodes), Len(data)) |->
                    [nodes[i] EXCEPT !.datum = data[i]]],
     enter |-> SubSeq(data, Len(nodes) + 1, Len(data)),
     exit |-> SubSeq(nodes, Len(data) + 1, Len(nodes))]

\* bars.enter().append("rect").classed("bar", true): the new nodes, which
\* d3 also places in the update selection.
enterAppend(enter) ==
    [i \in 1..Len(enter) |->
        [datum |-> enter[i], attr |-> Undefined, fillOpacity |-> Undefined]]

\* bars.attr({...}).style({"fill-opacity": ...}) on one node
styleBar(node, vm, s, viewport) ==
    LET d == node.datum
        padding == xAxisPadding(s)
        domain == ordinalDomain([i \in 1..Len(vm.dataPoints) |->
                                    vm.dataPoints[i].category], <<>>)
        y == yScale(vm.maxValue, viewport.height - padding, margin.top, d.value)
    IN [node EXCEPT
          !.attr = Def([width |-> rangeBand(Len(domain), margin.left, viewport.width),
                        height |-> barHeight(viewport.height, y, padding),
                        x |-> xScale(domain, margin.left, viewport.width, d.category),
                        y |-> y,
                        fill |-> d.color]),
          !.fillOpacity = Def(IF vm.highlights
                              THEN (IF d.highlighted THEN Opaque ELSE Dimmed)
                              ELSE Opaque)]

\* A render that forgets bars.exit().remove(): the exit nodes all stay.
exitKept(exit) == exit

\* bars.exit().remove(): the exit nodes that stay in the document
exitRemove(exit) == <<>>

\* The rect.bar children of barGroup when update returns.
renderBars(nodes, vm, s, viewport) ==
    LET join == dataJoin(nodes, vm.dataPoints)
        merged == join.update \o enterAppend(join.enter)
    IN [i \in 1..Len(merged) |-> styleBar(merged[i], vm, s, viewport)]
       \o exitRemove(join.exit)

(***************************************************************************)
(* The selection manager (host).  select(id, true) toggles id in the list, *)
(* comparing with equals(), and returns a promise of the resulting list.   *)
(***************************************************************************)
equals(a, b) == a.key = b.key

select(ids, id) ==
    IF \E j \in 1..Len(ids) : equals(id, ids[j])
    THEN SelectSeq(ids, LAMBDA d : ~equals(id, d))
    ELSE Append(ids, id)

\* ids.indexOf(id), counted from 0: === on objects, -1 if there is none
indexOf(ids, id) ==
    IF \E j \in 1..Len(ids) : ids[j] = id
    THEN (CHOOSE j \in 1..Len(ids) :
            ids[j] = id /\ \A k \in 1..(j - 1) : ids[k] # id) - 1
    ELSE -1

\* The identities of a view model that has been replaced are objects no
\* data point of the current view model holds.
markStale(ids) == [j \in 1..Len(ids) |-> [ids[j] EXCEPT !.instance = StaleInstance]]

\* "fill-opacity": ids.length>0 ? d => ids.indexOf(d.selectionId)>=0 ? 1.0 : 0.5 : 1.0
selectionOpacity(ids, d) ==
    IF Len(ids) > 0
    THEN (IF indexOf(ids, d.selectionId) >= 0 THEN Opaque ELSE Dimmed)
    ELSE Opaque

\* A callback that selects the bars anew instead of using the selection its
\* handler closed over: it reaches every bar in the document.
callbackNodesReselected(promise) == 1..Len(bars)

\* The nodes of the `bars` selection the click handler closed over that the
\* callback's bars.style(...) reaches in the document.
callbackNodes(promise) == promise.bars.nodes

(***************************************************************************)
(* enumerateObjectInstances, lines 237..273.                               *)
(***************************************************************************)
ObjectNames == {"xAxis", "dataColor", "general"}

Null == [null |-> TRUE]

\* selectionId.getSelector()
getSelector(selectionId) == [data |-> <<selectionId.key>>]

enumerateObjectInstances(objectName) ==
    CASE objectName = "xAxis" ->
            IF ~settings.defined THEN Threw
            ELSE Returned(<<[objectName |-> objectName,
                             properties |-> [show |-> settings.v.xAxis.show],
                             selector |-> Null]>>)
      [] objectName = "dataColor" ->
            IF ~viewModel.defined THEN Threw
            ELSE Returned([i \in 1..Len(viewModel.v.dataPoints) |->
                    LET d == viewModel.v.dataPoints[i] IN
                    [objectName |-> objectName,
                     displayName |-> d.category,
                     properties |-> [fill |-> [solid |-> [color |-> d.color]]],
                     selector |-> getSelector(d.selectionId)]])
      [] OTHER -> Returned(<<>>)

(***************************************************************************)
(* The state machine.                                                      *)
(***************************************************************************)
\* The constructor, lines 94..111: an empty svg, no settings, no view model.
Constructed ==
    /\ settings = Undefined
    /\ viewModel = Undefined
    /\ svg = Undefined
    /\ bars = <<>>
    /\ selectedIds = <<>>
    /\ pending = <<>>

Init == Constructed /\ call = Undefined

\* update(options), lines 113..226.  settings is assigned first; if
\* getViewModel throws, update ends there. Otherwise the view model is
\* replaced and the scene redrawn; every selection made by an earlier update
\* stops being the one the bars' handlers close over, and loses the nodes
\* that exit.
update(options) ==
    LET s == parseSettings(FirstDataView(options))
        r == getViewModel(options)
    IN /\ settings' = Def(s)
       /\ UNCHANGED call
       /\ IF r.threw
          THEN UNCHANGED <<viewModel, svg, bars, selectedIds, pending>>
          ELSE /\ viewModel' = Def(r.value)
               /\ svg' = Def(renderAxes(r.value, s, options.viewport))
               /\ bars' = renderBars(bars, r.value, s, options.viewport)
               /\ selectedIds' = markStale(selectedIds)
               /\ pending' = [k \in 1..Len(pending) |->
                    [ids |-> markStale(pending[k].ids),
                     bars |-> [nodes |-> pending[k].bars.nodes
                                           \cap (1..Len(r.value.dataPoints)),
                               current |-> FALSE]]]

\* A click on bar i, lines 182..191 up to .then: select() toggles the bar's
\* identity and its promise is in flight, with the callback that closes
\* over this render's `bars`.
click(i) ==
    /\ i \in 1..Len(bars)
    /\ Len(pending) < MaxPending
    /\ LET ids == select(selectedIds, bars[i].datum.selectionId) IN
        /\ selectedIds' = ids
        /\ pending' = Append(pending,
                [ids |-> ids,
                 bars |-> [nodes |-> 1..Len(bars), current |-> TRUE]])
    /\ UNCHANGED <<settings, viewModel, svg, bars, call>>

\* The oldest promise resolves and its callback runs, lines 184..190.
resolve ==
    /\ pending # <<>>
    /\ LET p == Head(pending) IN
          bars' = [i \in 1..Len(bars) |->
                      IF i \in callbackNodes(p)
                      THEN [bars[i] EXCEPT !.fillOpacity =
                                Def(selectionOpacity(p.ids, bars[i].datum))]
                      ELSE bars[i]]
    /\ pending' = Tail(pending)
    /\ UNCHANGED <<settings, viewModel, svg, selectedIds, call>>

\* The host asks for the instances of one object group: the call reads
\* settings and viewModel and assigns nothing, whether it returns or throws.
enumerate(objectName) ==
    /\ objectName \in ObjectNames
    /\ UNCHANGED vars

Next ==
    \/ \E options \in UpdateOptions : update(options)
    \/ \E i \in 1..MaxRows : click(i)
    \/ resolve
    \/ \E objectName \in ObjectNames : enumerate(objectName)

Spec == Init /\ [][Next]_vars

(***************************************************************************)
(* getViewModel as a function: one call on any input of Options, against a *)
(* visual that was just constructed.                                       *)
(***************************************************************************)
ViewModelInit ==
    /\ Constructed
    /\ \E options \in Options : call = Def([options |-> options, outcome |-> Undefined])

applyGetViewModel ==
    /\ ~call.v.outcome.defined
    /\ call' = Def([call.v EXCEPT !.outcome = Def(getViewModel(call.v.options))])
    /\ UNCHANGED visual

ViewModelNext == applyGetViewModel

ViewModelSpec == ViewModelInit /\ [][ViewModelNext]_vars

(***************************************************************************)
(* Properties.                                                             *)
(***************************************************************************)
\* A getViewModel call has been applied to its input.
Applied == call.defined /\ call.v.outcome.defined

\* A step in which a select() promise resolves and its callback runs: the
\* only step that shortens the queue of promises.
ResolveStep == Len(pending') < Len(pending)

\* A step of update, for some input.
UpdateStep == \E options \in UpdateOptions : update(options)

\* What update(options) leaves on a visual that was just constructed.
FreshUpdate(options) ==
    LET s == parseSettings(FirstDataView(options))
        r == getViewModel(options)
    IN IF r.threw
       THEN [viewModel |-> Undefined, svg |-> Undefined, bars |-> <<>>]
       ELSE [viewModel |-> Def(r.value),
             svg |-> Def(renderAxes(r.value, s, options.viewport)),
             bars |-> renderBars(<<>>, r.value, s, options.viewport)]

MaxOf(S) == CHOOSE m \in S : \A x \in S : m >= x

\* C1: whenever usable data is absent from the input (no data-view list, no
\* first data view, no categorical shape, categories absent or an empty list,
\* first category column without a source, values absent or an empty list),
\* getViewModel returns {dataPoints: [], maxValue: 0, highlights: false} and
\* does not throw.
C1_MissingDataGivesEmptyViewModel ==
    (Applied /\ ~HasUsableData(call.v.options))
        => call.v.outcome.v = Returned(EmptyViewModel)

\* C2: for a data view with a category column and a value column, of equal or
\* of different lengths, getViewModel returns without error a dataPoints list
\* of length max(category-count, value-count) whose i-th element has the
\* category and the value of row i.
C2_OneDataPointPerRow ==
    (Applied /\ HasUsableData(call.v.options)) =>
        LET categories == call.v.options.dataViews.v[1].categorical.v.categories.v[1]
            values == call.v.options.dataViews.v[1].categorical.v.values.v[1]
            out == call.v.outcome.v
        IN /\ ~out.threw
           /\ Len(out.value.dataPoints)
                = Max(Len(categories.values), Len(values.values))
           /\ \A i \in 1..Len(out.value.dataPoints) :
                /\ out.value.dataPoints[i].category =
                      IF i <= Len(categories.values)
                      THEN categories.values[i] ELSE UndefinedCategory
                /\ i <= Len(values.values)
                /\ out.value.dataPoints[i].value = values.values[i]

\* C3: the view model an update leaves has maxValue equal to the largest
\* value among its data points, and equal to 0 when it has no data points.
C3_MaxValueIsMaxOrZero ==
    viewModel.defined =>
        viewModel.v.maxValue =
            IF viewModel.v.dataPoints = <<>>
            THEN Def(0)
            ELSE Def(MaxOf({viewModel.v.dataPoints[i].value :
                                i \in 1..Len(viewModel.v.dataPoints)}))

\* C4: when a click's select() call resolves with the list of the currently
\* selected identities (no update between the click and the callback): if the
\* list is not empty every bar whose category is selected has opacity 1.0 and
\* every other bar 0.5; if it is empty every bar has opacity 1.0. This is to
\* hold too for a bar selected before an update rebuilt its identity.
C4_SelectedBarsOpaque ==
    [][(ResolveStep /\ Head(pending).bars.current /\ Head(pending).ids = selectedIds) =>
        \A i \in 1..Len(bars') :
            bars'[i].fillOpacity =
                Def(IF selectedIds = <<>> THEN Opaque
                    ELSE IF \E j \in 1..Len(selectedIds) :
                                selectedIds[j].key = bars'[i].datum.category
                         THEN Opaque ELSE Dimmed)]_vars

\* C5: immediately after every update, a bar has opacity 0.5 if and only if
\* the view model has a highlighted data point and the bar's own data point
\* is not highlighted; otherwise its opacity is 1.0.
HighlightOpacity ==
    \A i \in 1..Len(bars) :
        bars[i].fillOpacity =
            Def(IF viewModel.v.highlights /\ ~bars[i].datum.highlighted
                THEN Dimmed ELSE Opaque)

C5_OpacityFollowsHighlights == [][UpdateStep => HighlightOpacity']_vars

\* C6: once an update has completed, enumerateObjectInstances reflects the
\* most recently completed update: for "xAxis" one entry with the xAxis.show
\* parsed in that update (the one its axis labels were drawn with); for
\* "dataColor" one entry per data point, in order, with the point's category,
\* color and selector; for any other group the empty list.
C6_EnumerateReflectsLastUpdate ==
    viewModel.defined =>
        /\ enumerateObjectInstances("xAxis") =
             Returned(<<[objectName |-> "xAxis",
                         properties |->
                            [show |-> svg.v.xAxis.textVisibility = "visible"],
                         selector |-> Null]>>)
        /\ enumerateObjectInstances("dataColor") =
             Returned([i \in 1..Len(viewModel.v.dataPoints) |->
                [objectName |-> "dataColor",
                 displayName |-> viewModel.v.dataPoints[i].category,
                 properties |->
                    [fill |-> [solid |-> [color |-> viewModel.v.dataPoints[i].color]]],
                 selector |-> [data |-> <<viewModel.v.dataPoints[i].selectionId.key>>]]])
        /\ enumerateObjectInstances("general") = Returned(<<>>)

\* C7: update is a full recompute: from any reachable state, update with an
\* input leaves the view model and the scene (bars with geometry, fill and
\* opacity, axes and label visibility) that the same update leaves on a
\* freshly constructed visual.
C7_UpdateIsFullRecompute ==
    [][\A options \in UpdateOptions :
          update(options) =>
              /\ viewModel' = FreshUpdate(options).viewModel
              /\ svg' = FreshUpdate(options).svg
              /\ bars' = FreshUpdate(options).bars]_vars

\* C8: after any sequence of updates, the scene holds exactly one bar per
\* data point of the current view model (none left over, none missing), and
\* the i-th bar carries the category, value and fill of the i-th data point.
C8_OneBarPerDataPoint ==
    /\ Len(bars) = IF viewModel.defined THEN Len(viewModel.v.dataPoints) ELSE 0
    /\ \A i \in 1..Len(bars) :
         /\ i <= Len(viewModel.v.dataPoints)
         /\ bars[i].datum.category = viewModel.v.dataPoints[i].category
         /\ bars[i].datum.value = viewModel.v.dataPoints[i].value
         /\ bars[i].attr.defined
         /\ bars[i].attr.v.fill = viewModel.v.dataPoints[i].color

\* C8 witness: a promise whose captured bars have all exited, in a scene that
\* has MaxRows bars again: the data shrank to nothing and grew back.
C8_Witness ==
    /\ Len(bars) = MaxRows
    /\ \E k \in 1..Len(pending) : pending[k].bars.nodes = {}

\* C9 as claimed: no update is processed between a click and its callback,
\* so the callback recomputes the opacity of exactly the bars of the most
\* recently completed update, from that update's data points.
C9_CallbackSeesLatestUpdate ==
    [][ResolveStep =>
        /\ Head(pending).bars.current
        /\ \A i \in 1..Len(bars') :
             bars'[i].fillOpacity =
                Def(selectionOpacity(Head(pending).ids, bars'[i].datum))]_vars

\* C9 amended: an update may complete between a click and its callback. The
\* callback sets the opacity of the bars its click handler closed over that
\* are still in the scene, from their current data points, and leaves every
\* other bar as it is; when no update completed in between, those are exactly
\* the bars of the most recently completed update.
C9_CallbackStylesCapturedBars ==
    [][ResolveStep =>
        LET p == Head(pending) IN
        /\ Len(bars') = Len(bars)
        /\ \A i \in 1..Len(bars) :
             bars'[i] = IF i \in p.bars.nodes
                        THEN [bars[i] EXCEPT !.fillOpacity =
                                Def(selectionOpacity(p.ids, bars[i].datum))]
                        ELSE bars[i]
        /\ p.bars.current => p.bars.nodes = 1..Len(bars)]_vars

\* C9 witness: after a callback that ran late: the first bar was dimmed by
\* it, the second, entered by the update in between, is still opaque though
\* its identity is not in the selection.
C9_Witness ==
    /\ pending = <<>>
    /\ Len(bars) = 2
    /\ viewModel.defined /\ ~viewModel.v.highlights
    /\ bars[1].fillOpacity = Def(Dimmed)
    /\ bars[2].fillOpacity = Def(Opaque)
    /\ selectedIds # <<>>
    /\ \A j \in 1..Len(selectedIds) : ~equals(selectedIds[j], bars[2].datum.selectionId)

\* C10: in every reachable state, the state right after construction
\* included, enumerateObjectInstances returns a list for every group name
\* without throwing (it assigns nothing: see enumerate).
C10_EnumerateNeverThrows ==
    \A objectName \in ObjectNames : ~enumerateObjectInstances(objectName).threw

====
